---------------------------- MODULE Spec2Model ----------------------------
(***************************************************************************)
(* Model of macros/src/named_entities.rs: build_map, which turns the       *)
(* decoded entities.json object into the prefix-closed table of entity     *)
(* names, and the part of expand that hands the table to phf_map!.         *)
(*                                                                         *)
(* A Rust String is modelled as the sequence of its UTF-8 bytes.  ASCII    *)
(* bytes are written as one-character strings; "L" and "C" stand for the   *)
(* lead byte and the continuation byte of a two-byte character, so that    *)
(* byte slicing (k[1..], k[..n]) and its char-boundary panic are modelled  *)
(* as the code performs them.  A codepoint vector is a sequence of         *)
(* naturals, a [u32; 2] is a two-element tuple.                            *)
(*                                                                         *)
(* The two loops of build_map are stepped one iteration at a time.  The    *)
(* iteration order of both collections is left open: the model admits      *)
(* every order of the input object's entries and every order of the        *)
(* HashMap's key snapshot.                                                 *)
(***************************************************************************)
EXTENDS Naturals, Sequences, FiniteSets

VARIABLES js, todo, map, keys, pc, result, toks

vars == <<js, todo, map, keys, pc, result, toks>>

---------------------------------------------------------------------------
(* Bounds of the input space. *)

\* largest number of entries of the input object
MaxRecords == 3

\* longest codepoints vector of an entry
MaxCodepoints == 3

---------------------------------------------------------------------------
(* Input space. *)

Amp == <<"&", "a", "m", "p", ";">>

\* JSON keys are drawn from the prefixes of these byte strings
Words == {Amp, <<"&", "a", "b">>, <<"a">>, <<"&", "L", "C">>}

\* a byte string is valid UTF-8 iff every lead byte is followed by a
\* continuation byte and every continuation byte follows a lead byte
ValidUtf8(s) ==
    \A i \in 1..Len(s) :
        /\ s[i] = "L" => (i < Len(s) /\ s[i + 1] = "C")
        /\ s[i] = "C" => (i > 1 /\ s[i - 1] = "L")

KeyPool ==
    {s \in UNION {{SubSeq(w, 1, n) : n \in 0..Len(w)} : w \in Words} : ValidUtf8(s)}

Ramp(n) == [i \in 1..n |-> 37 + i]

Zeros(n) == [i \in 1..n |-> 0]

CodepointSeqs == {Ramp(n) : n \in 0..MaxCodepoints} \cup {Zeros(n) : n \in 1..2}

\* the objects json::Object can hold: distinct keys, one CharRef each
Datasets ==
    UNION {[K -> CodepointSeqs] :
              K \in {S \in SUBSET KeyPool : Cardinality(S) <= MaxRecords}}

---------------------------------------------------------------------------
(* Helpers of build_map. *)

Sentinel == <<0, 0>>

\* HashMap::insert: adds the key or overwrites its value
Insert(m, k, v) == [x \in DOMAIN m \cup {k} |-> IF x = k THEN v ELSE m[x]]

ValidCodepointsNoLowerBound(codepoints) == Len(codepoints) <= 2

\* assert!((codepoints.len() >= 1) && (codepoints.len() <= 2))
ValidCodepoints(codepoints) == Len(codepoints) >= 1 /\ Len(codepoints) <= 2

\* let mut codepoint_pair = [0, 0]; codepoint_pair[i] = n for every element
CodepointPair(codepoints) ==
    [i \in 1..2 |-> IF i <= Len(codepoints) THEN codepoints[i] ELSE 0]

\* assert!(k.chars().next() == Some('&'))
HasMarker(k) == Len(k) >= 1 /\ k[1] = "&"

EntityNameNoSemicolon(k) ==
    IF Len(k) >= 2 /\ k[Len(k)] = ";" THEN SubSeq(k, 2, Len(k) - 1)
    ELSE SubSeq(k, 2, Len(k))

\* k[1..]
EntityName(k) == SubSeq(k, 2, Len(k))

\* str::is_char_boundary, which the slice k[..n] checks
IsCharBoundary(k, n) == n = 0 \/ n = Len(k) \/ k[n + 1] # "C"

PrefixRangeFromTwo(k) == 2..(Len(k) - 1)

\* 1 .. k.len()
PrefixRange(k) == 1..(Len(k) - 1)

PrefixFromEnd(k, n) == SubSeq(k, n + 1, Len(k))

\* k[..n]
Prefix(k, n) == SubSeq(k, 1, n)

\* the prefix lengths at which k[..n] panics: n is not on a char boundary
BadSlices(k) == {n \in PrefixRange(k) : ~IsCharBoundary(k, n)}

SlicePanics(k) == BadSlices(k) # {}

InsertAlways(m, pfx) == Insert(m, pfx, Sentinel)

\* if !map.contains_key(&pfx) { map.insert(pfx, [0, 0]); }
InsertIfMissing(m, pfx) == IF pfx \in DOMAIN m THEN m ELSE Insert(m, pfx, Sentinel)

RECURSIVE ClosureOver(_, _, _)
\* for n in 1 .. k.len(), ascending
ClosureOver(m, k, ns) ==
    IF ns = {} THEN m
    ELSE LET n == CHOOSE x \in ns : \A y \in ns : x <= y
         IN  ClosureOver(InsertIfMissing(m, Prefix(k, n)), k, ns \ {n})

AddPrefixes(m, k) == ClosureOver(m, k, PrefixRange(k))

\* the iterations that ran before the slice panicked
AddPrefixesUntilPanic(m, k) ==
    ClosureOver(m, k, {n \in PrefixRange(k) : \A b \in BadSlices(k) : n < b})

InsertRecordLive(m, k, codepoints) ==
    LET m1 == Insert(m, EntityName(k), CodepointPair(codepoints))
        ps == {Prefix(EntityName(k), n) : n \in PrefixRange(EntityName(k))}
    IN  [x \in DOMAIN m1 \cup ps |-> IF x \in ps THEN Sentinel ELSE m1[x]]

\* map.insert(k[1..].to_string(), codepoint_pair)
InsertRecord(m, k, codepoints) == Insert(m, EntityName(k), CodepointPair(codepoints))

RootInsertIfAbsent(m) == InsertIfMissing(m, <<>>)

\* map.insert("".to_string(), [0, 0])
RootInsert(m) == Insert(m, <<>>, Sentinel)

---------------------------------------------------------------------------
(* State machine. *)

Init ==
    /\ js \in {[kind |-> "Object", obj |-> d] : d \in Datasets}
              \cup {[kind |-> "Null", obj |-> <<>>]}
    /\ todo = {}
    /\ map = <<>>
    /\ keys = {}
    /\ pc = "start"
    /\ result = <<>>
    /\ toks = <<>>

\* match js { Json::Object(m) => m, ... }; let mut map = HashMap::new()
MatchObject ==
    /\ pc = "start"
    /\ js.kind = "Object"
    /\ todo' = DOMAIN js.obj
    /\ pc' = "insert"
    /\ UNCHANGED <<js, map, keys, result, toks>>

\* match js { _ => return None }, and ext_expect! bails out of expand
ReturnNone ==
    /\ pc = "start"
    /\ js.kind # "Object"
    /\ pc' = "bailed"
    /\ UNCHANGED <<js, todo, map, keys, result, toks>>

\* one iteration of the loop over json_map
InsertEntity(k) ==
    /\ pc = "insert"
    /\ k \in todo
    /\ todo' = todo \ {k}
    /\ IF ValidCodepoints(js.obj[k]) /\ HasMarker(k)
       THEN /\ map' = InsertRecord(map, k, js.obj[k])
            /\ pc' = pc
       ELSE /\ map' = map
            /\ pc' = "panicked"
    /\ UNCHANGED <<js, keys, result, toks>>

\* the root entry and the snapshot of the keys
SnapshotKeys ==
    /\ pc = "insert"
    /\ todo = {}
    /\ map' = RootInsert(map)
    /\ keys' = DOMAIN map'
    /\ pc' = "closure"
    /\ UNCHANGED <<js, todo, result, toks>>

\* one iteration of the loop over the snapshot: every prefix of one key
ClosureKey(k) ==
    /\ pc = "closure"
    /\ k \in keys
    /\ keys' = keys \ {k}
    /\ IF SlicePanics(k)
       THEN /\ map' = AddPrefixesUntilPanic(map, k)
            /\ pc' = "panicked"
       ELSE /\ map' = AddPrefixes(map, k)
            /\ pc' = pc
    /\ UNCHANGED <<js, todo, result, toks>>

\* Some(map)
ReturnSome ==
    /\ pc = "closure"
    /\ keys = {}
    /\ result' = <<map>>
    /\ pc' = "returned"
    /\ UNCHANGED <<js, todo, map, keys, toks>>

\* expand: the token list k => [c0, c1] given to phf_map!
Expand ==
    /\ pc = "returned"
    /\ toks' = <<{<<k, result[1][k][1], result[1][k][2]>> : k \in DOMAIN result[1]}>>
    /\ pc' = "emitted"
    /\ UNCHANGED <<js, todo, map, keys, result>>

Next ==
    \/ MatchObject
    \/ ReturnNone
    \/ \E k \in todo : InsertEntity(k)
    \/ SnapshotKeys
    \/ \E k \in keys : ClosureKey(k)
    \/ ReturnSome
    \/ Expand

Spec == Init /\ [][Next]_vars

---------------------------------------------------------------------------
(* Vocabulary of the properties. *)

Succeeded == pc \in {"returned", "emitted"}

Returned == result[1]

Records == DOMAIN js.obj

\* the name of a record as the data model defines it: the key without its
\* leading marker
NameOf(k) == SubSeq(k, 2, Len(k))

FullNames == {NameOf(k) : k \in Records}

IsProperPrefix(p, k) == Len(p) < Len(k) /\ SubSeq(k, 1, Len(p)) = p

ProperPrefixes(k) == {SubSeq(k, 1, n) : n \in 1..(Len(k) - 1)}

\* one codepoint c0 gives (c0, 0), two give (c0, c1)
Padded(cp) == IF Len(cp) = 1 THEN <<cp[1], 0>> ELSE <<cp[1], cp[2]>>

MalformedRecord(k) ==
    \/ Len(js.obj[k]) = 0
    \/ Len(js.obj[k]) > 2
    \/ k = <<>>
    \/ k[1] # "&"

AmpDataset == [k \in {Amp} |-> <<38>>]

ClosureRan == Succeeded /\ \E k \in Records : Len(NameOf(k)) >= 3

---------------------------------------------------------------------------
(* Properties. *)

\* C1 closure: when the build succeeds, every non-empty proper prefix of
\* every full entity name is a key of the returned mapping.
C1_Closure ==
    Succeeded =>
        \A k \in Records : \A n \in 1..(Len(NameOf(k)) - 1) :
            SubSeq(NameOf(k), 1, n) \in DOMAIN Returned

C1_Witness ==
    /\ Succeeded
    /\ \E k \in Records : Len(NameOf(k)) >= 4
    /\ Cardinality(Records) = 2

C3_ScenarioAsStated ==
    (Succeeded /\ js.obj = AmpDataset) =>
        /\ {<<"a", "m", "p">>, <<"a", "m">>, <<"a">>, <<>>} \subseteq DOMAIN Returned
        /\ Returned[<<"a", "m", "p">>] = <<38, 0>>
        /\ Returned[<<"a", "m">>] = <<0, 0>>
        /\ Returned[<<"a">>] = <<0, 0>>
        /\ Returned[<<>>] = <<0, 0>>

\* C3 scenario 1 as the code behaves: only the marker is sliced off, so the
\* single record "&amp;" -> [38] yields "amp;" -> (38,0) and the sentinel
\* (0,0) for "amp", "am", "a" and "".
C3_ScenarioAmended ==
    (Succeeded /\ js.obj = AmpDataset) =>
        /\ DOMAIN Returned =
               {<<"a", "m", "p", ";">>, <<"a", "m", "p">>, <<"a", "m">>, <<"a">>, <<>>}
        /\ Returned[<<"a", "m", "p", ";">>] = <<38, 0>>
        /\ Returned[<<"a", "m", "p">>] = <<0, 0>>
        /\ Returned[<<"a", "m">>] = <<0, 0>>
        /\ Returned[<<"a">>] = <<0, 0>>
        /\ Returned[<<>>] = <<0, 0>>

C3_Witness == Succeeded /\ js.obj = AmpDataset

\* C4 empty name rejected: a dataset holding the key "&" (empty name after
\* the marker) never makes the build succeed.
C4_EmptyNameRejected ==
    (js.kind = "Object" /\ <<"&">> \in Records) => ~Succeeded

\* C5 malformed record aborts: with a record of 0 or more than 2
\* codepoints, or a key not starting with '&', at any place of the dataset,
\* no mapping is ever returned or given to the emitter, and the build has
\* panicked once every record has been read.
C5_MalformedAborts ==
    (js.kind = "Object" /\ \E k \in Records : MalformedRecord(k)) =>
        /\ result = <<>>
        /\ toks = <<>>
        /\ ~Succeeded
        /\ (pc # "start" /\ todo = {}) => pc = "panicked"

C5_Witness ==
    /\ pc = "panicked"
    /\ todo = {}
    /\ \E k \in Records : MalformedRecord(k)
    /\ \E k \in Records : ~MalformedRecord(k)
    /\ DOMAIN map # {}

\* C6 sentinel exclusivity: in the returned mapping no full entity name of
\* the dataset maps to (0,0).
C6_SentinelExclusive ==
    Succeeded => \A k \in Records : Returned[NameOf(k)] # <<0, 0>>

\* C7 order independence: the returned mapping is the same function of the
\* dataset in every order of the input records and of the snapshot: its
\* keys and values are fixed by the dataset alone.
C7_OrderIndependent ==
    Succeeded =>
        Returned =
            [x \in FullNames \cup {<<>>} \cup UNION {ProperPrefixes(n) : n \in FullNames} |->
                IF x # <<>> /\ x \in FullNames
                THEN Padded(js.obj[<<"&">> \o x])
                ELSE <<0, 0>>]

C7_Witness ==
    /\ Succeeded
    /\ Cardinality(Records) = 2
    /\ \A k \in Records : Len(NameOf(k)) >= 2

\* C8 root: whenever the build succeeds, "" is a key of the returned
\* mapping and its value is (0,0).
C8_Root ==
    Succeeded => (<<>> \in DOMAIN Returned /\ Returned[<<>>] = <<0, 0>>)

C8_Witness ==
    /\ Succeeded
    /\ <<"&">> \in Records
    /\ js.obj[<<"&">>] = <<38>>

\* C9 padding: in the returned mapping every record with one codepoint c0
\* maps its name to (c0, 0) and every record with two maps it to (c0, c1).
C9_Padding ==
    Succeeded => \A k \in Records : Returned[NameOf(k)] = Padded(js.obj[k])

\* C10 exact key set: the returned keys are exactly the full names, "" and
\* the non-empty proper prefixes of the full names, and every key that is
\* not a full name has the value (0,0).
C10_ExactKeys ==
    Succeeded =>
        /\ DOMAIN Returned =
               FullNames \cup {<<>>} \cup UNION {ProperPrefixes(n) : n \in FullNames}
        /\ \A x \in DOMAIN Returned \ FullNames : Returned[x] = <<0, 0>>

C10_Witness ==
    /\ Succeeded
    /\ \E k \in Records : Len(NameOf(k)) >= 4
    /\ \E x \in DOMAIN Returned : x \notin FullNames /\ Len(x) >= 2

=============================================================================
